---- MODULE Spec2Model ----
(***************************************************************************)
(* Model of the table-merging pipeline of pycellid (pycellid/io.py) and of *)
(* the lazy container built on it (pycellid/core.py).                      *)
(*                                                                         *)
(* Strings (paths, channel descriptors, column names) are sequences of     *)
(* one-character strings, so that the regular expressions and the          *)
(* str.startswith / str.split / str.lower calls of the source are computed *)
(* character by character.                                                 *)
(***************************************************************************)
EXTENDS Integers, Sequences, FiniteSets, TLC

(***************************************************************************)
(* Character classes of Python's re module, restricted to ASCII.           *)
(***************************************************************************)
DigitSeq == <<"0", "1", "2", "3", "4", "5", "6", "7", "8", "9">>

Digits == {DigitSeq[i] : i \in 1..10}

DigitVal(c) == (CHOOSE i \in 1..10 : DigitSeq[i] = c) - 1

LowerSeq ==
  <<"a", "b", "c", "d", "e", "f", "g", "h", "i", "j", "k", "l", "m",
    "n", "o", "p", "q", "r", "s", "t", "u", "v", "w", "x", "y", "z">>

UpperSeq ==
  <<"A", "B", "C", "D", "E", "F", "G", "H", "I", "J", "K", "L", "M",
    "N", "O", "P", "Q", "R", "S", "T", "U", "V", "W", "X", "Y", "Z">>

Letters == {LowerSeq[i] : i \in 1..26} \cup {UpperSeq[i] : i \in 1..26}

\* \w
WordChars == Letters \cup Digits \cup {"_"}

\* str.lower() of one character
LowerChar(c) ==
  IF \E i \in 1..26 : UpperSeq[i] = c
  THEN LowerSeq[CHOOSE i \in 1..26 : UpperSeq[i] = c]
  ELSE c

\* str.lower()
Lower(s) == [i \in DOMAIN s |-> LowerChar(s[i])]

\* Length of the longest run of characters of class C in s starting at
\* index j: what a greedy  [C]*  consumes.
RECURSIVE Run(_, _, _)
Run(s, j, C) ==
  IF j <= Len(s) /\ s[j] \in C THEN 1 + Run(s, j + 1, C) ELSE 0

At(s, j) == IF j >= 1 /\ j <= Len(s) THEN s[j] ELSE ""

\* F(e), with e evaluated once.
Bind(e, F(_)) == CHOOSE r \in {F(x) : x \in {e}} : TRUE

RECURSIVE Pow10(_)
Pow10(n) == IF n = 0 THEN 1 ELSE 10 * Pow10(n - 1)

(***************************************************************************)
(* POSITION_REX = POS(SC_NOTATION|\d+)                                     *)
(*   POS         = [p|P][a-zA-Z]*[-|_]*                                    *)
(*   SC_NOTATION = -?[\d.]+(?:e-?\d+)+(?:[+]-?\d+)?                        *)
(* Every matcher returns the index just after the text it consumed, or 0   *)
(* when it does not match.                                                 *)
(***************************************************************************)
PosHead == {"p", "|", "P"}

PosSep == {"-", "|", "_"}

\* One group  e-?\d+  at j.
ExpOne(s, j) ==
  IF At(s, j) = "e"
  THEN LET sg == IF At(s, j + 1) = "-" THEN 1 ELSE 0
           d  == Run(s, j + 1 + sg, Digits)
       IN  IF d >= 1 THEN j + 1 + sg + d ELSE 0
  ELSE 0

\* (?:e-?\d+)+ , greedy.
RECURSIVE ExpGroups(_, _)
ExpGroups(s, j) ==
  Bind(ExpOne(s, j), LAMBDA e :
    IF e = 0 THEN 0
    ELSE Bind(ExpGroups(s, e), LAMBDA more : IF more = 0 THEN e ELSE more))

\* (?:[+]-?\d+)? , greedy: the offset when present, else nothing.
Offset(s, j) ==
  IF At(s, j) = "+"
  THEN LET sg == IF At(s, j + 1) = "-" THEN 1 ELSE 0
           d  == Run(s, j + 1 + sg, Digits)
       IN  IF d >= 1 THEN j + 1 + sg + d ELSE j
  ELSE j

\* SC_NOTATION at j.  A shorter mantissa is followed by a digit or a dot,
\* never by "e", so only the longest mantissa can lead to a match.
ScNotation(s, j) ==
  LET sg == IF At(s, j) = "-" THEN 1 ELSE 0
  IN  Bind(Run(s, j + sg, Digits \cup {"."}), LAMBDA m :
        IF m = 0 THEN 0
        ELSE Bind(ExpGroups(s, j + sg + m), LAMBDA e :
               IF e = 0 THEN 0 ELSE Offset(s, e)))

\* (SC_NOTATION|\d+) at j: the first alternative that matches.
Literal(s, j) ==
  Bind(ScNotation(s, j), LAMBDA sc :
    IF sc # 0 THEN sc
    ELSE Bind(Run(s, j, Digits), LAMBDA d : IF d >= 1 THEN j + d ELSE 0))

\* POSITION_REX anchored at i: <<from, to>> of group 1, or <<0, 0>>.
\* [a-zA-Z]* takes every letter (after fewer letters the next character is
\* a letter, which starts no literal); [-|_]* gives separators back one at
\* a time until the literal matches.
MatchAt(s, i) ==
  IF At(s, i) \notin PosHead THEN <<0, 0>>
  ELSE Bind(i + 1 + Run(s, i + 1, Letters), LAMBDA a :
         Bind({j \in a..(a + Run(s, a, PosSep)) : Literal(s, j) # 0},
              LAMBDA ok :
                IF ok = {} THEN <<0, 0>>
                ELSE LET j == CHOOSE x \in ok : \A y \in ok : y <= x
                     IN  <<j, Literal(s, j)>>))

\* POSITION_REX.findall(path)[0]: group 1 of the leftmost match, or <<>>
\* when findall returns the empty list.
FindPosition(s) ==
  Bind({i \in 1..Len(s) : MatchAt(s, i) # <<0, 0>>}, LAMBDA starts :
    IF starts = {} THEN <<>>
    ELSE Bind(MatchAt(s, CHOOSE x \in starts : \A y \in starts : x <= y),
              LAMBDA m : SubSeq(s, m[1], m[2] - 1)))

(***************************************************************************)
(* int(float(text)) for the texts the pattern can capture: an optional     *)
(* "-", digits with dots, exponent groups.  float() accepts at most one    *)
(* dot, at least one digit and at most one exponent; int() truncates       *)
(* toward zero.                                                            *)
(***************************************************************************)
RECURSIVE DigitsValue(_, _)
DigitsValue(s, acc) ==
  IF s = <<>> THEN acc
  ELSE IF Head(s) = "." THEN DigitsValue(Tail(s), acc)
  ELSE DigitsValue(Tail(s), 10 * acc + DigitVal(Head(s)))

CountOf(s, c) == Cardinality({i \in DOMAIN s : s[i] = c})

\* The value of a mantissa of m characters with its exponent group, if
\* any, at rest..e1-1, truncated toward zero.
Magnitude(t, mant, m, rest, e1) ==
  LET dotAt == IF CountOf(mant, ".") = 1
               THEN CHOOSE i \in DOMAIN mant : mant[i] = "." ELSE m
      esg   == IF At(t, rest + 1) = "-" THEN 1 ELSE 0
  IN  Bind((IF e1 > rest
            THEN (IF esg = 1 THEN 0 - 1 ELSE 1)
                 * DigitsValue(SubSeq(t, rest + 1 + esg, e1 - 1), 0)
            ELSE 0) - (m - dotAt),
           LAMBDA expo :
             IF expo >= 0 THEN DigitsValue(mant, 0) * Pow10(expo)
             ELSE DigitsValue(mant, 0) \div Pow10(0 - expo))

IntOfFloat(t) ==
  LET sg == IF At(t, 1) = "-" THEN 1 ELSE 0
  IN  Bind(Run(t, 1 + sg, Digits \cup {"."}), LAMBDA m :
        Bind([mant |-> SubSeq(t, 1 + sg, sg + m),
              rest |-> sg + m + 1,
              e1   |-> IF sg + m + 1 <= Len(t)
                       THEN ExpOne(t, sg + m + 1) ELSE sg + m + 1],
             LAMBDA v :
               IF \/ m = 0
                  \/ CountOf(v.mant, ".") > 1
                  \/ CountOf(v.mant, ".") = m
                  \/ v.e1 # Len(t) + 1
               THEN [err |-> "ValueError", val |-> 0]
               ELSE Bind(Magnitude(t, v.mant, m, v.rest, v.e1), LAMBDA mag :
                      [err |-> "none",
                       val |-> IF sg = 1 THEN 0 - mag ELSE mag])))

\* str.split("+") of a text holding exactly one "+".
SplitPlus(t) ==
  LET p == CHOOSE i \in DOMAIN t : t[i] = "+"
  IN  <<SubSeq(t, 1, p - 1), SubSeq(t, p + 1, Len(t))>>

\* The position block of make_df: the position encoded in a path.
Position(path) ==
  Bind(FindPosition(path), LAMBDA found :
    IF found = <<>> THEN [err |-> "FileNotFoundError", val |-> 0]
    ELSE IF CountOf(found, "+") >= 1
    THEN Bind(SplitPlus(found), LAMBDA parts :
           Bind(IntOfFloat(parts[1]), LAMBDA a :
             Bind(IntOfFloat(parts[2]), LAMBDA b :
               IF a.err # "none" THEN a
               ELSE IF b.err # "none" THEN b
               ELSE [err |-> "none", val |-> a.val + b.val])))
    ELSE IntOfFloat(found))

\* -------------------------------------------------------------------------
\* CHANNEL_REX = ([\w][f|F][\w]{,1})([_|\D][p|P][\D]*)
\* -------------------------------------------------------------------------
ChanMid == {"f", "|", "F"}

ChanTail == {"p", "|", "P"}

NonDigit(c) == c # "" /\ c \notin Digits

\* Length of group 1 of CHANNEL_REX anchored at i, or 0.  [\w]{,1} first
\* takes a word character and gives it back when the rest fails; [\D]*
\* always matches.
ChannelAt(s, i) ==
  IF At(s, i) \in WordChars /\ At(s, i + 1) \in ChanMid
  THEN IF /\ At(s, i + 2) \in WordChars
          /\ NonDigit(At(s, i + 3))
          /\ At(s, i + 4) \in ChanTail
       THEN 3
       ELSE IF NonDigit(At(s, i + 2)) /\ At(s, i + 3) \in ChanTail
       THEN 2
       ELSE 0
  ELSE 0

\* CHANNEL_REX.findall(path): group 1 of the leftmost match, or <<>> when
\* the list is empty.
FindChannel(s) ==
  LET starts == {i \in 1..Len(s) : ChannelAt(s, i) # 0}
  IN  IF starts = {} THEN <<>>
      ELSE LET i == CHOOSE x \in starts : \A y \in starts : x <= y
           IN  SubSeq(s, i, i + ChannelAt(s, i) - 1)

(***************************************************************************)
(* Table values.  A number n is the pair <<n \div Limb, n % Limb>>, which  *)
(* keeps identifiers of the size of 1e11 exact; NaN, the empty cell of     *)
(* pandas, is the empty tuple.  1e11 = ScaleHi * Limb.                     *)
(***************************************************************************)
Limb == 1000000

ScaleHi == 100000

NaN == <<>>

Num(n) == <<n \div Limb, n % Limb>>

IsNum(v) == v # NaN

BigAdd(a, b) ==
  LET lo == a[2] + b[2]
  IN  <<a[1] + b[1] + (lo \div Limb), lo % Limb>>

BigLess(a, b) == a[1] < b[1] \/ (a[1] = b[1] /\ a[2] < b[2])

(***************************************************************************)
(* Column names.                                                           *)
(***************************************************************************)
cCellID == <<"c", "e", "l", "l", "I", "D">>

cTFrame == <<"t", "_", "f", "r", "a", "m", "e">>

cFlag == <<"f", "l", "a", "g">>

cUcid == <<"u", "c", "i", "d">>

cPos == <<"p", "o", "s">>

cFluor == <<"f", "l", "u", "o", "r">>

\* str.startswith
StartsWith(s, pre) == Len(s) >= Len(pre) /\ SubSeq(s, 1, Len(pre)) = pre

\* name.startswith("f_")
IsFluor(name) == StartsWith(name, <<"f", "_">>)

Range(f) == {f[i] : i \in DOMAIN f}

(***************************************************************************)
(* read_df: the header is stripped of blanks and "." becomes "_".  A file  *)
(* is [path, header, rows]; a table is a sequence of rows, each a function *)
(* from column name to value.                                              *)
(***************************************************************************)
RECURSIVE LStrip(_)
LStrip(s) == IF s # <<>> /\ Head(s) = " " THEN LStrip(Tail(s)) ELSE s

RECURSIVE RStrip(_)
RStrip(s) ==
  IF s # <<>> /\ s[Len(s)] = " " THEN RStrip(SubSeq(s, 1, Len(s) - 1)) ELSE s

Strip(s) == RStrip(LStrip(s))

\* df.columns.str.replace(".", "_", regex=True): the pattern is one character
\* long, which pandas before 2.0 (the versions the package was written for)
\* takes as the literal "." even with regex=True.
ReplaceDot(s) == [i \in DOMAIN s |-> IF s[i] = "." THEN "_" ELSE s[i]]

NormHeader(h) == [k \in DOMAIN h |-> ReplaceDot(Strip(h[k]))]

read_df(file) ==
  Bind(NormHeader(file.header), LAMBDA cols :
    [n \in DOMAIN file.rows |->
       [c \in Range(cols) |->
          file.rows[n][CHOOSE k \in DOMAIN cols : cols[k] = c]]])

(***************************************************************************)
(* _create_ucid                                                            *)
(***************************************************************************)
\* A plausible slip: the position is not scaled.
CalcUnscaled(pos) == Num(pos)

\* calc = int(pos * 1e11); the product is exact in a double for the
\* positions of the model (pos * 5^11 < 2^53).
Calc(pos) == <<pos * ScaleHi, 0>>

_create_ucid(df, pos) ==
  Bind(Calc(pos), LAMBDA calc :
    [n \in DOMAIN df |-> (cUcid :> BigAdd(calc, df[n][cCellID])) @@ df[n]])

(***************************************************************************)
(* make_df: read the file, find the position in its path, add ucid and pos.*)
(***************************************************************************)
\* A plausible slip: a path that encodes no position counts as position 0.
\* df["pos"] = np.linspace(pos, pos, len(df), dtype=int)
WithPos(df, pos) ==
  Bind(Num(pos), LAMBDA v : [n \in DOMAIN df |-> (cPos :> v) @@ df[n]])

make_df_lenient(file) ==
  Bind(read_df(file), LAMBDA df :
    Bind(Position(file.path), LAMBDA p :
      Bind(IF p.err = "none" THEN p.val ELSE 0, LAMBDA v :
        Bind(_create_ucid(df, v), LAMBDA d :
          [err |-> "none", df |-> WithPos(d, v)]))))

make_df(file) ==
  Bind(read_df(file), LAMBDA df :
    Bind(Position(file.path), LAMBDA p :
      IF p.err # "none" THEN [err |-> p.err, df |-> <<>>]
      ELSE Bind(_create_ucid(df, p.val), LAMBDA d :
             [err |-> "none", df |-> WithPos(d, p.val)])))

(***************************************************************************)
(* _decod_chanel.  A mapping table is a sequence of records [flag, fluor]. *)
(***************************************************************************)
_decod_chanel(df_mapping, flag) ==
  Bind(SelectSeq(df_mapping, LAMBDA e : e.flag = flag), LAMBDA rows :
    IF rows = <<>> THEN [err |-> "IndexError", val |-> <<>>]
    ELSE IF rows[1].fluor = <<>> THEN [err |-> "ValueError", val |-> <<>>]
    ELSE Bind(FindChannel(rows[1].fluor), LAMBDA found :
           IF found = <<>> THEN [err |-> "IndexError", val |-> <<>>]
           ELSE [err |-> "none", val |-> Lower(found)]))

\* Series.unique(): the values in the order of their first appearance.
RECURSIVE Unique(_)
Unique(s) ==
  IF s = <<>> THEN <<>>
  ELSE Bind(Unique(SubSeq(s, 1, Len(s) - 1)), LAMBDA u :
         IF s[Len(s)] \in Range(u) THEN u ELSE Append(u, s[Len(s)]))

\* A plausible slip: entries that encode no channel are skipped.
FlagsDecodable(df_map) ==
  SelectSeq(Unique([k \in DOMAIN df_map |-> df_map[k].flag]),
            LAMBDA fg : _decod_chanel(df_map, fg).err = "none")

\* df_map["flag"].unique(): the flags the dict comprehension decodes.
FlagsToDecode(df_map) == Unique([k \in DOMAIN df_map |-> df_map[k].flag])

\* chanels = {fg: _decod_chanel(df_map, fg) for fg in ...}: the decoder is
\* called flag by flag and the first failure ends the comprehension.
\* calls lists the flags the decoder was called with.
Chanels(df_map) ==
  Bind(FlagsToDecode(df_map), LAMBDA flags :
    Bind([k \in DOMAIN flags |-> _decod_chanel(df_map, flags[k])],
         LAMBDA res :
           Bind({k \in DOMAIN flags : res[k].err # "none"}, LAMBDA bad :
             IF bad = {}
             THEN [err |-> "none", calls |-> flags,
                   map |-> [fg \in Range(flags) |->
                              res[CHOOSE k \in DOMAIN flags :
                                    flags[k] = fg].val]]
             ELSE LET k == CHOOSE x \in bad : \A y \in bad : x <= y
                  IN  [err |-> res[k].err, calls |-> SubSeq(flags, 1, k),
                       map |-> <<>>])))

(***************************************************************************)
(* _make_cols_chan                                                          *)
(***************************************************************************)
Columns(df) == UNION {DOMAIN df[n] : n \in DOMAIN df}

KeyOf(row) == <<row[cUcid], row[cTFrame]>>

KeyLeq(a, b) ==
  \/ BigLess(a[1], b[1])
  \/ a[1] = b[1] /\ (BigLess(a[2], b[2]) \/ a[2] = b[2])

\* The keys in lexicographic order, as pivot and an outer merge order them.
RECURSIVE SortKeys(_)
SortKeys(S) ==
  IF S = {} THEN <<>>
  ELSE Bind(CHOOSE k \in S : \A o \in S : KeyLeq(k, o), LAMBDA m :
         <<m>> \o SortKeys(S \ {m}))

\* df.pivot raises ValueError when two rows share index and column.
PivotDuplicates(df) ==
  \E i, j \in DOMAIN df :
    i # j /\ KeyOf(df[i]) = KeyOf(df[j]) /\ df[i][cFlag] = df[j][cFlag]

\* The value of df.pivot(index, columns="flag", values=fluor) at
\* (key, (f_var, flag)): NaN where the file has no such row.
PivotCell(df, key, label) ==
  LET hit == {n \in DOMAIN df : KeyOf(df[n]) = key /\ df[n][cFlag] = label[2]}
  IN  IF hit = {} THEN NaN ELSE df[CHOOSE n \in hit : TRUE][label[1]]

\* A plausible slip: a label whose flag has no channel is dropped.
RenameKnown(labels, chanels) ==
  [err |-> "none",
   names |-> [l \in {x \in labels : x[2] \in DOMAIN chanels} |->
                l[1] \o <<"_">> \o chanels[l[2]]]]

\* df_flag.columns = [f"{n[0]}_{chanels[n[1]]}" for n in df_flag.columns]
RenameColumns(labels, chanels) ==
  IF \E l \in labels : l[2] \notin DOMAIN chanels
  THEN [err |-> "KeyError", names |-> <<>>]
  ELSE [err |-> "none",
        names |-> [l \in labels |-> l[1] \o <<"_">> \o chanels[l[2]]]]

\* A plausible slip: how="left".
MergeKeysLeft(left, right) == left

\* how="outer": the union of the keys of both frames.
MergeKeys(left, right) == left \cup right

RECURSIVE Flatten(_)
Flatten(ss) == IF ss = <<>> THEN <<>> ELSE Head(ss) \o Flatten(Tail(ss))

\* pd.merge(df_morf, df_flag, on=["ucid", "t_frame"], how="outer") followed
\* by reset_index.  df_flag is the pivot of df with its columns renamed by
\* names: one row per key, the cell of column names[l] being PivotCell of l.
Merge(df_morf, morfCols, flagKeys, names, df) ==
  LET flagCols == Range(names)
      cell(key, c) ==
        PivotCell(df, key, CHOOSE l \in DOMAIN names : names[l] = c)
      row(key, hasL, l) ==
        [c \in morfCols \cup flagCols |->
           IF c = cUcid THEN key[1]
           ELSE IF c = cTFrame THEN key[2]
           ELSE IF c \in morfCols THEN (IF hasL THEN l[c] ELSE NaN)
           ELSE IF key \in flagKeys THEN cell(key, c) ELSE NaN]
      rowsOf(key) ==
        Bind(SelectSeq(df_morf, LAMBDA r : KeyOf(r) = key), LAMBDA ls :
          IF ls = <<>> THEN <<row(key, FALSE, <<>>)>>
          ELSE [n \in DOMAIN ls |-> row(key, TRUE, ls[n])])
  IN  Bind(SortKeys(MergeKeys({KeyOf(df_morf[n]) : n \in DOMAIN df_morf},
                              flagKeys)),
           LAMBDA keys : Flatten([k \in DOMAIN keys |-> rowsOf(keys[k])]))

\* The order of the columns (pos, t_frame, ucid, cellID first) is not
\* modelled: a row is a function on the set of its columns.
_make_cols_chan(df, df_map) ==
  IF PivotDuplicates(df)
  THEN [err |-> "ValueError", df |-> <<>>, calls |-> <<>>]
  ELSE
  Bind([fluor   |-> {c \in Columns(df) : IsFluor(c)},
        flags   |-> {df[n][cFlag] : n \in DOMAIN df},
        keys    |-> {KeyOf(df[n]) : n \in DOMAIN df},
        morf    |-> {c \in Columns(df) : ~IsFluor(c)},
        df_morf |-> SelectSeq(df, LAMBDA r : r[cFlag] = Num(0)),
        ch      |-> Chanels(df_map)],
       LAMBDA v :
         IF v.ch.err # "none"
         THEN [err |-> v.ch.err, df |-> <<>>, calls |-> v.ch.calls]
         ELSE
         Bind(RenameColumns(v.fluor \X v.flags, v.ch.map), LAMBDA ren :
           IF ren.err # "none"
           THEN [err |-> ren.err, df |-> <<>>, calls |-> v.ch.calls]
           ELSE
           [err |-> "none", calls |-> v.ch.calls,
            df |-> Merge(v.df_morf, v.morf, v.keys, ren.names, df)]))

\* pd.concat([df, df_i], ignore_index=True): the rows stacked, the columns
\* united, an absent value left empty.
Concat(a, b) ==
  Bind(Columns(a) \cup Columns(b), LAMBDA cols :
    LET fill(r) == [c \in cols |-> IF c \in DOMAIN r THEN r[c] ELSE NaN]
    IN  [n \in DOMAIN a |-> fill(a[n])] \o [n \in DOMAIN b |-> fill(b[n])])

(***************************************************************************)
(* The files under the root path.  A data file is [path, header, rows]; a  *)
(* mapping file is [path, table].                                          *)
(***************************************************************************)
MaxDataFiles == 2

MaxMapFiles == 2

\* Texts of the files: header names, paths, channel descriptors.
hCellID == <<" ", "c", "e", "l", "l", "I", "D", " ">>

hTFrame == <<"t", ".", "f", "r", "a", "m", "e">>

hFlag == <<"f", "l", "a", "g">>

hXpos == <<" ", "x", "p", "o", "s">>

hFtot == <<"f", ".", "t", "o", "t">>

pathA == <<"a", "/", "p", "o", "s", "1">>

pathB == <<"b", "/", "p", "2">>

pathC == <<"c", "/", "o", "u", "t">>

pathD == <<"P", "o", "s", "_", "0">>

pathE == <<"p", "o", "s", "1", "e", "0", "+", "2">>

pathF == <<"P", "-", "0", "1">>

mapPath1 == <<"a", "/", "m", "a", "p">>

mapPath2 == <<"b", "/", "m", "a", "p">>

mapPath3 == <<"c", "/", "m", "a", "p">>

mapPath4 == <<"d", "/", "m", "a", "p">>

fluorYFP1 == <<"Y", "F", "P", "_", "P", "o", "s", "i", "t", "i", "o", "n", "1">>

fluorCFP1 == <<"c", "f", "p", "_", "P", "o", "s", "i", "t", "i", "o", "n", "1">>

fluorYFP2 == <<"/", "i", "/", "y", "f", "p", "_", "P", "o", "s">>

fluorCFP2 == <<"C", "F", "P", "_", "P">>

fluorRFP == <<"R", "F", "P", "_", "p", "o", "s">>

fluorCellID == <<"c", "e", "l", "l", "I", "D">>

fluorBF == <<"B", "F", "_", "P", "o", "s", "i", "t", "i", "o", "n", "2">>

\* The header as CellID writes it: blanks around a name, "." in a name.
RawHeader == <<hCellID, hTFrame, hFlag, hXpos, hFtot>>

cXpos == <<"x", "p", "o", "s">>

cFtot == <<"f", "_", "t", "o", "t">>

RawRow(cellID, t_frame, flag, xpos, f_tot) ==
  <<cellID, Num(t_frame), Num(flag), Num(xpos), Num(f_tot)>>

\* Two cells, each with its flag-0 and flag-1 record.
FileA ==
  [path |-> pathA, header |-> RawHeader,
   rows |-> <<RawRow(Num(1), 0, 0, 10, 100), RawRow(Num(1), 0, 1, 10, 101),
              RawRow(Num(2), 0, 0, 20, 200), RawRow(Num(2), 0, 1, 20, 201)>>]

\* Frame 1 of cell 1 has a fluorescence record and no flag-0 record.
FileB ==
  [path |-> pathB, header |-> RawHeader,
   rows |-> <<RawRow(Num(1), 0, 0, 11, 110), RawRow(Num(1), 0, 1, 11, 111),
              RawRow(Num(1), 1, 1, 12, 121)>>]

\* A path that encodes no position.
FileC ==
  [path |-> pathC, header |-> RawHeader,
   rows |-> <<RawRow(Num(1), 0, 0, 13, 130), RawRow(Num(1), 0, 1, 13, 131)>>]

\* Position 0 and a local cell id of 1e11 + 1.
FileD ==
  [path |-> pathD, header |-> RawHeader,
   rows |-> <<RawRow(<<ScaleHi, 1>>, 0, 0, 14, 140),
              RawRow(<<ScaleHi, 1>>, 0, 1, 14, 141),
              RawRow(Num(1), 0, 0, 15, 150), RawRow(Num(1), 0, 1, 15, 151)>>]

\* Two rows for one (cellID, t_frame, flag).
FileE ==
  [path |-> pathE, header |-> RawHeader,
   rows |-> <<RawRow(Num(1), 0, 0, 16, 160), RawRow(Num(1), 0, 0, 16, 161)>>]

\* Position 1 again, under another path, with a record of flag 2.
FileF ==
  [path |-> pathF, header |-> RawHeader,
   rows |-> <<RawRow(Num(1), 0, 0, 17, 170), RawRow(Num(1), 0, 2, 17, 172),
              RawRow(Num(3), 2, 2, 18, 182)>>]

DataFiles == {FileA, FileB, FileC, FileD, FileE, FileF}

MapEntry(flag, fluor) == [flag |-> Num(flag), fluor |-> fluor]

MapYC ==
  [path |-> mapPath1,
   table |-> <<MapEntry(0, fluorYFP1), MapEntry(1, fluorCFP1)>>]

MapYCR ==
  [path |-> mapPath2,
   table |-> <<MapEntry(0, fluorYFP2), MapEntry(1, fluorCFP2), MapEntry(2, fluorRFP)>>]

\* Flag 3 is used by no data file and its descriptor encodes no channel.
MapUnused ==
  [path |-> mapPath3,
   table |-> <<MapEntry(0, fluorYFP2), MapEntry(1, fluorCFP1), MapEntry(2, fluorRFP),
               MapEntry(3, fluorCellID)>>]

\* No entry for flag 1.
MapShort ==
  [path |-> mapPath4,
   table |-> <<MapEntry(0, fluorBF)>>]

MapFiles == {MapYC, MapYCR, MapUnused, MapShort}

SeqsUpTo(S, n) == UNION {[1..k -> S] : k \in 0..n}

(***************************************************************************)
(* State.                                                                  *)
(*   merge_tables:  fs     the root path: whether it exists, and the files *)
(*                         rglob yields for each pattern, in order         *)
(*                  pc     where the call is                               *)
(*                  di, mi how many files each generator has yielded       *)
(*                  df     the accumulated table (the value returned)      *)
(*                  df_i   the table _make_cols_chan returned last         *)
(*                  made   the tables make_df returned, in order           *)
(*                  reads  the files read, in order                        *)
(*                  pairs  the (data, mapping) files handed to             *)
(*                         _make_cols_chan, by their generator index       *)
(*                  calls  the flags _decod_chanel was called with by the  *)
(*                         last _make_cols_chan                            *)
(*                  err    the exception raised                            *)
(*   make_df's position block alone:  path_file, pos                       *)
(*   CellData:      merge_ok  whether merge_tables succeeds on its path    *)
(*                  has_df    "_df" in vars(self)                          *)
(*                  cell_df   self._df, a function from key to column      *)
(*                  merge_calls  calls of merge_tables so far              *)
(*                  accesses  accesses made on the instance so far         *)
(*                  asked     the last value assigned to each key through  *)
(*                            CellData[key] = value                        *)
(*                  last      the last access and what it returned         *)
(***************************************************************************)
VARIABLES fs, pc, di, mi, df, df_i, made, reads, pairs, calls, err,
          path_file, pos,
          merge_ok, has_df, cell_df, merge_calls, accesses, asked, last

mergeVars == <<fs, pc, di, mi, df, df_i, made, reads, pairs, calls, err>>

posVars == <<path_file, pos>>

cellVars == <<merge_ok, has_df, cell_df, merge_calls, accesses, asked, last>>

vars == <<mergeVars, posVars, cellVars>>

MergeIdle ==
  /\ fs = [exists |-> FALSE, data |-> <<>>, meta |-> <<>>]
  /\ pc = "idle" /\ di = 0 /\ mi = 0
  /\ df = <<>> /\ df_i = <<>> /\ made = <<>> /\ reads = <<>>
  /\ pairs = <<>> /\ calls = <<>> /\ err = "none"

PosIdle == path_file = <<>> /\ pos = [done |-> FALSE, err |-> "none", val |-> 0]

CellIdle ==
  /\ merge_ok = FALSE /\ has_df = FALSE /\ cell_df = <<>>
  /\ merge_calls = 0 /\ accesses = 0 /\ asked = <<>>
  /\ last = [op |-> "none", raised |-> "none", seen |-> <<>>]

(***************************************************************************)
(* merge_tables                                                            *)
(***************************************************************************)
\* A root path that does not exist holds no files.
MergeInit ==
  /\ fs \in [exists : {TRUE}, data : SeqsUpTo(DataFiles, MaxDataFiles),
             meta : SeqsUpTo(MapFiles, MaxMapFiles)]
            \cup {[exists |-> FALSE, data |-> <<>>, meta |-> <<>>]}
  /\ pc = "start" /\ di = 0 /\ mi = 0
  /\ df = <<>> /\ df_i = <<>> /\ made = <<>> /\ reads = <<>>
  /\ pairs = <<>> /\ calls = <<>> /\ err = "none"

Raise(e) ==
  /\ pc' = "error"
  /\ err' = e
  /\ df' = <<>>
  /\ df_i' = <<>>

\* if not Path(path).exists(): raise FileExistsError; the two generators
\* are created and nothing is read yet.
CheckPath ==
  /\ pc = "start"
  /\ IF fs.exists
     THEN pc' = "first" /\ UNCHANGED <<err, df, df_i>>
     ELSE Raise("FileExistsError")
  /\ UNCHANGED <<fs, di, mi, made, reads, pairs, calls>>

\* A plausible slip: the mapping generator is created anew for every file.
NextMappingRestart(n) == 1

\* next(file_mapping): the index of the file the generator yields next.
NextMapping(n) == n + 1

\* make_df(table) followed by
\* _make_cols_chan(df, pd.read_table(next(file_mapping))) for the data file
\* of index i, and the concatenation of its result.
Process(i) ==
  \E m \in {make_df(fs.data[i])}, j \in {NextMapping(mi)} :
    LET rdD == [kind |-> "data", idx |-> i]
        rdM == [kind |-> "meta", idx |-> j]
    IN  /\ di' = i
        /\ UNCHANGED fs
        /\ IF m.err # "none"
           THEN /\ Raise(m.err)
                /\ reads' = Append(reads, rdD)
                /\ UNCHANGED <<mi, made, pairs, calls>>
           ELSE IF j > Len(fs.meta)
           THEN /\ Raise("StopIteration")
                /\ reads' = Append(reads, rdD)
                /\ made' = Append(made, m.df)
                /\ UNCHANGED <<mi, pairs, calls>>
           ELSE \E t \in {_make_cols_chan(m.df, fs.meta[j].table)} :
                  /\ reads' = reads \o <<rdD, rdM>>
                  /\ made' = Append(made, m.df)
                  /\ mi' = j
                  /\ pairs' = Append(pairs, <<i, j>>)
                  /\ calls' = t.calls
                  /\ IF t.err # "none"
                     THEN Raise(t.err)
                     ELSE /\ df' = Concat(df, t.df)
                          /\ df_i' = t.df
                          /\ pc' = "loop"
                          /\ UNCHANGED err

\* table = next(data_tables) and the first pair.
First ==
  /\ pc = "first"
  /\ IF Len(fs.data) = 0
     THEN /\ Raise("StopIteration")
          /\ UNCHANGED <<fs, di, mi, made, reads, pairs, calls>>
     ELSE Process(1)

\* for data_table in data_tables: one iteration.
Loop ==
  /\ pc = "loop"
  /\ di < Len(fs.data)
  /\ Process(di + 1)

\* The data generator is exhausted: return df.
Return ==
  /\ pc = "loop"
  /\ di = Len(fs.data)
  /\ pc' = "done"
  /\ UNCHANGED <<fs, di, mi, df, df_i, made, reads, pairs, calls, err>>

Init == MergeInit /\ PosIdle /\ CellIdle

Next ==
  \/ CheckPath /\ UNCHANGED <<posVars, cellVars>>
  \/ First /\ UNCHANGED <<posVars, cellVars>>
  \/ Loop /\ UNCHANGED <<posVars, cellVars>>
  \/ Return /\ UNCHANGED <<posVars, cellVars>>

Spec == Init /\ [][Next]_vars

(***************************************************************************)
(* Properties of merge_tables.  They are stated on the files as written    *)
(* (the raw rows, the mapping entries, the paths) and on what the call     *)
(* read and returned.                                                      *)
(***************************************************************************)
RawCell(r) == r[1]

RawFrame(r) == r[2]

RawFlag(r) == r[3]

RawXpos(r) == r[4]

RawFlags(file) == {RawFlag(file.rows[n]) : n \in DOMAIN file.rows}

MapFlags(mfile) == {mfile.table[k].flag : k \in DOMAIN mfile.table}

\* The descriptor _decod_chanel reads for a flag: that of its first entry.
FirstFluor(mfile, flag) ==
  mfile.table[CHOOSE k \in DOMAIN mfile.table :
                /\ mfile.table[k].flag = flag
                /\ \A l \in DOMAIN mfile.table :
                     mfile.table[l].flag = flag => k <= l].fluor

Undecodable(mfile, flag) == FindChannel(FirstFluor(mfile, flag)) = <<>>

HasPosition(file) == FindPosition(file.path) # <<>>

MissingFlag(i, j) == RawFlags(fs.data[i]) \ MapFlags(fs.meta[j]) # {}

RawDuplicates(file) ==
  \E a, b \in DOMAIN file.rows :
    /\ a # b
    /\ RawCell(file.rows[a]) = RawCell(file.rows[b])
    /\ RawFrame(file.rows[a]) = RawFrame(file.rows[b])
    /\ RawFlag(file.rows[a]) = RawFlag(file.rows[b])

Below1e11(c) == IsNum(c) /\ c[1] >= 0 /\ BigLess(c, <<ScaleHi, 0>>)

\* position * 100000000000 + cellID, for values of the table
UcidOf(p, c) == BigAdd(<<p[2] * ScaleHi, 0>>, c)

\* C1: every row of the table merge_tables returns, the rows of a
\* (ucid, t_frame) key without flag-0 record included, satisfies
\* ucid = pos * 100000000000 + cellID.
C1_UcidOfEveryRow ==
  pc = "done" =>
    \A n \in DOMAIN df :
      /\ IsNum(df[n][cPos])
      /\ IsNum(df[n][cCellID])
      /\ df[n][cUcid] = UcidOf(df[n][cPos], df[n][cCellID])

\* C2: for local cell ids in [0, 1e11), equal ucids imply equal position
\* and equal cellID: over the rows make_df produced for all the files, and
\* over the rows of the merged table that carry pos and cellID.
SameCell(r, q) ==
  (/\ Below1e11(r[cCellID])
   /\ Below1e11(q[cCellID])
   /\ r[cUcid] = q[cUcid])
  => (r[cPos] = q[cPos] /\ r[cCellID] = q[cCellID])

FtotColumn(mfile, flag) ==
  cFtot \o <<"_">> \o Lower(FindChannel(FirstFluor(mfile, flag)))

\* C4: when a data file holds a flag its mapping file has no entry for,
\* reshaping the pair fails and merge_tables returns no table; a table a
\* reshape returns has, for every flag of the data file, the column named
\* after that flag's channel.
C4_MissingFlagFails ==
  /\ \A n \in DOMAIN pairs :
       MissingFlag(pairs[n][1], pairs[n][2]) =>
         (pc = "error" /\ n = Len(pairs) /\ df = <<>> /\ df_i = <<>>)
  /\ (pairs # <<>> /\ pc \in {"loop", "done"}) =>
       LET i == pairs[Len(pairs)][1]
           j == pairs[Len(pairs)][2]
       IN  \A fg \in RawFlags(fs.data[i]) :
             /\ fg \in MapFlags(fs.meta[j])
             /\ FtotColumn(fs.meta[j], fg) \in Columns(df_i)

C4_Witness ==
  /\ pairs # <<>>
  /\ MissingFlag(pairs[Len(pairs)][1], pairs[Len(pairs)][2])
  /\ pc = "error"
  /\ err = "KeyError"

\* C5: the table merge_tables returns, and the table _make_cols_chan
\* returns, have no column named flag.
C5_NoFlagColumn ==
  /\ \A n \in DOMAIN df : cFlag \notin DOMAIN df[n]
  /\ \A n \in DOMAIN df_i : cFlag \notin DOMAIN df_i[n]

\* C6: the N-th data file is reshaped with the N-th mapping file; a mapping
\* file is read right after its data file, and at most once.
C6_Lockstep ==
  /\ \A n \in DOMAIN pairs : pairs[n] = <<n, n>>
  /\ \A n \in DOMAIN reads :
       reads[n].kind = "meta" =>
         /\ n > 1
         /\ reads[n - 1] = [kind |-> "data", idx |-> reads[n].idx]
         /\ \A k \in DOMAIN reads : (k # n) => reads[k] # reads[n]

C6_Witness == Len(pairs) >= 2 /\ pc = "done"

ChannelFails(i, j) ==
  \/ MissingFlag(i, j)
  \/ \E fg \in MapFlags(fs.meta[j]) : Undecodable(fs.meta[j], fg)

Aborted(n) == pc = "error" /\ n = Len(reads) /\ df = <<>>

\* C7: a root path that does not exist fails the call before anything is
\* read; a data file whose path encodes no position, or whose mapping does
\* not decode, fails the call with that error: no table is returned, the
\* failing file is the last one read, and no file is read twice.
C7_NoPartialMerge ==
  /\ (~fs.exists /\ pc # "start") =>
       (pc = "error" /\ err = "FileExistsError" /\ reads = <<>>
        /\ di = 0 /\ mi = 0)
  /\ \A n \in DOMAIN reads :
       /\ (reads[n].kind = "data" /\ ~HasPosition(fs.data[reads[n].idx])) =>
            (Aborted(n) /\ err = "FileNotFoundError")
       /\ (reads[n].kind = "meta" /\ ChannelFails(reads[n - 1].idx, reads[n].idx))
            => (Aborted(n) /\ err # "none")
       /\ \A k \in DOMAIN reads : (k # n) => reads[k] # reads[n]
  /\ pc = "done" => (err = "none" /\ Len(pairs) = Len(fs.data))

\* The second data file encodes no position: the call ends on reading it,
\* the table of the first file is not returned and the second mapping file
\* is not read.
C7_Witness ==
  /\ Len(reads) = 3
  /\ reads[3].kind = "data"
  /\ ~HasPosition(fs.data[reads[3].idx])
  /\ pc = "error"
  /\ err = "FileNotFoundError"
  /\ df = <<>>
  /\ Len(fs.meta) = 2

\* C9: the table _make_cols_chan returns has exactly one row for every
\* (ucid, t_frame) key of its data file, and no other row; for a key with a
\* flag-0 record the morphological values are those of that record.
C9_OneRowPerKey ==
  (pc \in {"loop", "done"} /\ di >= 1) =>
    LET file == fs.data[di]
        p    == Num(Position(file.path).val)
        key(r) == <<UcidOf(p, RawCell(r)), RawFrame(r)>>
        rowsOf(k) == {n \in DOMAIN df_i : KeyOf(df_i[n]) = k}
    IN  /\ ~RawDuplicates(file)
        /\ \A r \in Range(file.rows) : Cardinality(rowsOf(key(r))) = 1
        /\ \A n \in DOMAIN df_i : \E r \in Range(file.rows) : KeyOf(df_i[n]) = key(r)
        /\ \A r \in Range(file.rows) :
             RawFlag(r) = Num(0) =>
               \A n \in rowsOf(key(r)) :
                 /\ df_i[n][cCellID] = RawCell(r)
                 /\ df_i[n][cXpos] = RawXpos(r)
                 /\ df_i[n][cPos] = p

\* A key with fluorescence records only has its row, with empty
\* morphological values, next to a key with a flag-0 record.
C9_Witness ==
  /\ pc \in {"loop", "done"}
  /\ \E n, k \in DOMAIN df_i :
       /\ df_i[n][cXpos] = NaN
       /\ IsNum(df_i[k][cXpos])
       /\ df_i[n][cUcid] = df_i[k][cUcid]

\* Whether the last reshape failed: the last file read is a mapping file.
ReshapeFailed ==
  pc = "error" /\ reads # <<>> /\ reads[Len(reads)].kind = "meta"

Markers ==
  {<<"p", "o", "s">>,
   <<"P", "o", "s", "i", "t", "i", "o", "n", "_">>,
   <<"t", "m", "p", "/", "p", "-">>,
   <<"p">>}

\* Plain integers, scientific notation, offset sums, and texts float()
\* refuses or the pattern does not match.
Literals ==
  {<<"2">>,
   <<"0", "1", "2">>,
   <<"2", ".", "5", "e", "3">>,
   <<"2", ".", "5", "e", "+", "3", "-", "1", "0", "0">>,
   <<"1", "e", "2", "+", "5">>,
   <<"2", ".", "5", "e", "3", "+", "-", "1", "0", "0">>,
   <<"1", "e", "0", "+", "-", "5">>,
   <<"1", "e", "-", "1">>,
   <<"2", "5", "e", "-", "1">>,
   <<"3", ".", "7">>,
   <<"1", ".", "2", ".", "3", "e", "1">>,
   <<"1", "e", "2", "e", "3">>,
   <<".", "e", "1">>,
   <<"x">>,
   <<>>}

Suffixes == {<<>>, <<".", "o", "u", "t">>}

PathStrings == {m \o l \o x : m \in Markers, l \in Literals, x \in Suffixes}

PosInit ==
  /\ path_file \in PathStrings
  /\ pos = [done |-> FALSE, err |-> "none", val |-> 0]

ParsePosition ==
  /\ ~pos.done
  /\ \E p \in {Position(path_file)} :
       pos' = [done |-> TRUE, err |-> p.err, val |-> p.val]
  /\ UNCHANGED path_file

InitPos == MergeIdle /\ PosInit /\ CellIdle

NextPos == ParsePosition /\ UNCHANGED <<mergeVars, cellVars>>

SpecPos == InitPos /\ [][NextPos]_vars

ExamplePath == <<"p", "o", "s", "2", ".", "5", "e", "+", "3", "-", "1", "0", "0">>

\* Whether text t occurs in s.
Contains(s, t) ==
  \E i \in 1..(Len(s) - Len(t) + 1) : SubSeq(s, i, i + Len(t) - 1) = t

\* C3: a path with a position marker followed by a literal gives a
\* non-negative integer, the truncated literal or the sum of the two
\* truncated parts of an offset sum (the sign of a negative offset aside);
\* a path containing pos2.5e+3-100 is not parsed as position 2.
C3_PositionRule ==
  (pos.done /\ pos.err = "none") =>
    /\ ~Contains(path_file, <<"+", "-">>) => pos.val >= 0
    /\ Contains(path_file, ExamplePath) => pos.val # 2

(***************************************************************************)
(* CellData and CellsPloter (core.py).  self._df is a function from key to *)
(* column; a column is a number here.                                      *)
(***************************************************************************)
MaxAccesses == 3

Keys == {"ucid", "a"}

Values == {1, 2}

\* The table merge_tables returns.
MergedTable == [k \in {"ucid"} |-> 0]

ReadOps == {"df", "getattr", "getitem", "iter", "len", "repr"}

CellInit ==
  /\ merge_ok \in BOOLEAN
  /\ has_df = FALSE /\ cell_df = <<>>
  /\ merge_calls = 0 /\ accesses = 0 /\ asked = <<>>
  /\ last = [op |-> "none", raised |-> "none", seen |-> <<>>]

\* The property df: merge_tables is called when "_df" is not in
\* vars(self); an exception of merge_tables leaves the instance as it was.
DfProperty ==
  IF has_df
  THEN [has |-> TRUE, tbl |-> cell_df, calls |-> merge_calls,
        raised |-> "none"]
  ELSE IF merge_ok
  THEN [has |-> TRUE, tbl |-> MergedTable, calls |-> merge_calls + 1,
        raised |-> "none"]
  ELSE [has |-> FALSE, tbl |-> <<>>, calls |-> merge_calls + 1,
        raised |-> "MergeError"]

\* The expression self._df (and cells._df): the attribute when it is set;
\* otherwise __getattr__("_df") runs getattr(self.df, "_df"), which builds
\* the table and raises AttributeError, a DataFrame having no "_df".
PrivateDf ==
  IF has_df
  THEN [has |-> TRUE, tbl |-> cell_df, calls |-> merge_calls,
        raised |-> "none"]
  ELSE [has |-> DfProperty.has, tbl |-> DfProperty.tbl,
        calls |-> DfProperty.calls,
        raised |-> IF DfProperty.raised # "none" THEN DfProperty.raised
                   ELSE "AttributeError"]

\* df, __getattr__, __getitem__, __iter__, __len__, __repr__: each works
\* on self.df, a copy of the table.
Read(op) ==
  /\ accesses < MaxAccesses
  /\ \E b \in {DfProperty} :
       /\ has_df' = b.has
       /\ cell_df' = b.tbl
       /\ merge_calls' = b.calls
       /\ last' = [op |-> op, raised |-> b.raised, seen |-> b.tbl]
  /\ accesses' = accesses + 1
  /\ UNCHANGED <<merge_ok, asked>>

\* __setitem__: self._df[key] = values
SetItem(key, values) ==
  /\ accesses < MaxAccesses
  /\ \E b \in {PrivateDf} :
       /\ has_df' = b.has
       /\ cell_df' = IF b.raised = "none" THEN (key :> values) @@ b.tbl
                     ELSE b.tbl
       /\ merge_calls' = b.calls
       /\ last' = [op |-> "setitem", raised |-> b.raised, seen |-> <<>>]
  /\ asked' = (key :> values) @@ asked
  /\ accesses' = accesses + 1
  /\ UNCHANGED merge_ok

\* CellsPloter.__getattr__ and __call__ with a pandas kind:
\* getattr(self.cells._df.plot, a)
PlotAccess ==
  /\ accesses < MaxAccesses
  /\ \E b \in {PrivateDf} :
       /\ has_df' = b.has
       /\ cell_df' = b.tbl
       /\ merge_calls' = b.calls
       /\ last' = [op |-> "plot", raised |-> b.raised,
                   seen |-> IF b.raised = "none" THEN b.tbl ELSE <<>>]
  /\ accesses' = accesses + 1
  /\ UNCHANGED <<merge_ok, asked>>

InitCell == MergeIdle /\ PosIdle /\ CellInit

NextCell ==
  \/ (\E op \in ReadOps : Read(op)) /\ UNCHANGED <<mergeVars, posVars>>
  \/ (\E k \in Keys, v \in Values : SetItem(k, v))
       /\ UNCHANGED <<mergeVars, posVars>>
  \/ PlotAccess /\ UNCHANGED <<mergeVars, posVars>>

SpecCell == InitCell /\ [][NextCell]_vars

\* C8: merge_tables is not called before the first access, is called on
\* the first access and never again; an access works on the cached table,
\* and a value assigned through CellData[key] = values is in the table
\* every later read sees.
C8_LazyOnce ==
  /\ accesses = 0 => merge_calls = 0
  /\ accesses >= 1 => merge_calls = 1
  /\ \A k \in DOMAIN asked :
       has_df /\ k \in DOMAIN cell_df /\ cell_df[k] = asked[k]
  /\ (last.op \in ReadOps \cup {"plot"} /\ last.raised = "none") =>
       last.seen = cell_df

====
